---- MODULE Spec2Model ----
(***************************************************************************)
(* Loan decision engine of the credit-approval backend: the EMI           *)
(* calculator (core/services/loan_service.py), the credit scorer          *)
(* (core/services/credit_score.py), the eligibility decider               *)
(* (core/services/eligibility.py), the Customer and Loan tables           *)
(* (core/models.py) and the three POST handlers of core/views.py.         *)
(*                                                                         *)
(* Units.  Every currency amount is a DecimalField with two decimal       *)
(* places; it is held here as an integer number of cents.  An interest    *)
(* rate is a DecimalField with two decimal places; it is held as an       *)
(* integer number of hundredths of a percent (12% is 1200).  A date is a  *)
(* day number; its calendar year is the day number divided by 365.        *)
(*                                                                         *)
(* Decimal arithmetic.  The code computes with decimal.Decimal in the     *)
(* default context (28 significant digits, ROUND_HALF_EVEN), and          *)
(* round(x, 2) of a Decimal is quantize to 0.01 in that context, that is  *)
(* round-half-even.  The operators below compute the same quotients as    *)
(* exact fractions of integers and round once, half-even, to a cent.      *)
(***************************************************************************)
EXTENDS Integers, Sequences, FiniteSets, TLC

VARIABLES customers, loans, today, resp, inflight

vars == <<customers, loans, today, resp, inflight>>

(***************************************************************************)
(* Exact fractions standing for the Decimal computations.                  *)
(***************************************************************************)
RECURSIVE GCD(_, _)
GCD(a, b) ==
    IF b = 0 THEN a ELSE GCD(b, a % b)

RECURSIVE Pow(_, _)
Pow(x, n) ==
    IF n = 0 THEN 1 ELSE x * Pow(x, n - 1)

\* <<(s * n) \div d, (s * n) % d>> for 0 <= s < d, by doubling, so that the
\* product s * n itself is never formed (it can leave the 32-bit range).
RECURSIVE MulDivMod(_, _, _)
MulDivMod(s, n, d) ==
    IF n = 0 THEN <<0, 0>>
    ELSE LET h  == MulDivMod(s, n \div 2, d)
             r2 == 2 * h[2] + (IF n % 2 = 1 THEN s ELSE 0)
         IN  <<2 * h[1] + (r2 \div d), r2 % d>>

\* mutant: an exact half rounds up, whatever the parity of the quotient
RoundHalfEven_half_up(q, r, den) ==
    IF 2 * r >= den THEN q + 1 ELSE q

\* q + r/den rounded to the nearest integer, an exact half to the even
\* neighbour (0 <= r < den): quantize in the default Decimal context.
RoundHalfEven(q, r, den) ==
    IF 2 * r > den THEN q + 1
    ELSE IF 2 * r < den THEN q
    ELSE IF q % 2 = 0 THEN q ELSE q + 1

\* x * num / den rounded half-even to an integer: x is split as k*d + s.
MulDivRound(x, num, den) ==
    LET g  == GCD(num, den)
        n  == num \div g
        d  == den \div g
        qr == MulDivMod(x % d, n, d)
    IN  RoundHalfEven((x \div d) * n + qr[1], qr[2], d)

\* annual_rate / 12 / 100 as a reduced fraction <<a, b>>; the rate is in
\* hundredths of a percent, so the monthly rate is rate / 120000.
MonthlyRate(annual_rate) ==
    LET g == GCD(annual_rate, 120000)
    IN  <<annual_rate \div g, 120000 \div g>>

Max(a, b) ==
    IF b > a THEN b ELSE a

RECURSIVE SeqSum(_)
SeqSum(s) ==
    IF Len(s) = 0 THEN 0 ELSE Head(s) + SeqSum(Tail(s))

(***************************************************************************)
(* core/services/loan_service.py                                           *)
(***************************************************************************)
calc_emi(principal, annual_rate, tenure_months) ==
    IF tenure_months = 0 THEN 0
    ELSE LET monthly_r == MonthlyRate(annual_rate)
             a == monthly_r[1]
             b == monthly_r[2]
         IN  IF a = 0
             THEN MulDivRound(principal, 1, tenure_months)
             ELSE LET power == Pow(a + b, tenure_months)
                      unit  == Pow(b, tenure_months)
                  IN  MulDivRound(principal, a * power, b * (power - unit))

(***************************************************************************)
(* core/models.py: Loan                                                    *)
(***************************************************************************)
remaining_emis(loan) ==
    Max(0, loan.tenure - loan.emis_paid_on_time)

is_active(loan) ==
    remaining_emis(loan) > 0

remaining_principal(loan) ==
    IF ~is_active(loan) THEN 0
    ELSE LET remaining == remaining_emis(loan)
             monthly_r == MonthlyRate(loan.interest_rate)
             a == monthly_r[1]
             b == monthly_r[2]
             monthly_emi == loan.monthly_installment
         IN  IF a = 0
             THEN monthly_emi * remaining
             ELSE LET power == Pow(a + b, remaining)
                      unit  == Pow(b, remaining)
                  IN  MulDivRound(monthly_emi, b * (power - unit), a * power)

(***************************************************************************)
(* core/services/credit_score.py.  ls is customer.loans.all(), the rows of *)
(* the Loan table of one customer; now is date.today(), which the function *)
(* reads from the system clock.  perf_ratio is a float quotient of two     *)
(* integers compared with 0.9, 0.7 and 0.5; for sums of this size it is    *)
(* the exact comparison of the fractions, stated here by cross-multiplying.*)
(***************************************************************************)
Min(a, b) ==
    IF b < a THEN b ELSE a

YearOf(d) ==
    d \div 365

current_debt(ls) ==
    SeqSum([i \in 1..Len(ls) |->
               IF is_active(ls[i]) THEN remaining_principal(ls[i]) ELSE 0])

total_paid(ls) ==
    SeqSum([i \in 1..Len(ls) |-> ls[i].emis_paid_on_time])

tenure_sum(ls) ==
    SeqSum([i \in 1..Len(ls) |-> ls[i].tenure])

completed(ls) ==
    Cardinality({i \in 1..Len(ls) : ~is_active(ls[i])})

recent_loans(ls, now) ==
    Cardinality({i \in 1..Len(ls) : YearOf(ls[i].start_date) = YearOf(now)})

total_vol(ls) ==
    SeqSum([i \in 1..Len(ls) |-> ls[i].loan_amount])

perf_points(ls) ==
    IF tenure_sum(ls) > 0
    THEN IF 10 * total_paid(ls) > 9 * tenure_sum(ls) THEN 10
         ELSE IF 10 * total_paid(ls) > 7 * tenure_sum(ls) THEN 5
         ELSE IF 2 * total_paid(ls) < tenure_sum(ls) THEN -10
         ELSE 0
    ELSE 0

\* mutant: the top bracket starts at three completed loans
completed_points_from_three(ls) ==
    IF completed(ls) >= 3 THEN 10
    ELSE IF completed(ls) >= 1 THEN 5
    ELSE 0

completed_points(ls) ==
    IF completed(ls) > 3 THEN 10
    ELSE IF completed(ls) >= 1 THEN 5
    ELSE 0

\* mutant: more than three loans in the current year cost 15 points
recent_points_minus_fifteen(ls, now) ==
    IF recent_loans(ls, now) > 3 THEN -15
    ELSE IF recent_loans(ls, now) >= 1 THEN 5
    ELSE 0

recent_points(ls, now) ==
    IF recent_loans(ls, now) > 3 THEN -10
    ELSE IF recent_loans(ls, now) >= 1 THEN 5
    ELSE 0

volume_points(ls) ==
    IF total_vol(ls) > 100000000 THEN 10
    ELSE IF total_vol(ls) > 50000000 THEN 5
    ELSE 0

\* mutant: the new-customer baseline is returned before the limit guard
calculate_credit_score_baseline_first(customer, ls, now) ==
    IF Len(ls) = 0 THEN 50
    ELSE IF current_debt(ls) > customer.approved_limit THEN 0
    ELSE Max(0, Min(100, 50 + perf_points(ls) + completed_points(ls)
                            + recent_points(ls, now) + volume_points(ls)))

\* mutant: a debt equal to the limit already counts as a breach
calculate_credit_score_breach_at_limit(customer, ls, now) ==
    IF current_debt(ls) >= customer.approved_limit THEN 0
    ELSE IF Len(ls) = 0 THEN 50
    ELSE Max(0, Min(100, 50 + perf_points(ls) + completed_points(ls)
                            + recent_points(ls, now) + volume_points(ls)))

calculate_credit_score(customer, ls, now) ==
    IF current_debt(ls) > customer.approved_limit THEN 0
    ELSE IF Len(ls) = 0 THEN 50
    ELSE Max(0, Min(100, 50 + perf_points(ls) + completed_points(ls)
                            + recent_points(ls, now) + volume_points(ls)))

(***************************************************************************)
(* core/services/eligibility.py                                            *)
(***************************************************************************)
slab_approved(score) ==
    score > 10

\* mutant: the high-risk slab gets the medium-risk floor
final_rate_one_floor(score, requested_rate) ==
    IF score > 50 THEN requested_rate
    ELSE IF score > 30 THEN Max(requested_rate, 1200)
    ELSE IF score > 10 THEN Max(requested_rate, 1200)
    ELSE requested_rate

final_rate(score, requested_rate) ==
    IF score > 50 THEN requested_rate
    ELSE IF score > 30 THEN Max(requested_rate, 1200)
    ELSE IF score > 10 THEN Max(requested_rate, 1600)
    ELSE requested_rate

\* mutant: repaid loans are counted too
current_emi_total_all_loans(ls) ==
    SeqSum([i \in 1..Len(ls) |-> ls[i].monthly_installment])

current_emi_total(ls) ==
    SeqSum([i \in 1..Len(ls) |->
               IF is_active(ls[i]) THEN ls[i].monthly_installment ELSE 0])

over_salary_cap(customer, ls, new_emi) ==
    2 * (current_emi_total(ls) + new_emi) > customer.monthly_salary

check_loan_eligibility(customer, ls, requested_amount, requested_rate, tenure, now) ==
    LET score   == calculate_credit_score(customer, ls, now)
        rate    == final_rate(score, requested_rate)
        new_emi == calc_emi(requested_amount, rate, tenure)
    IN  [approval                |-> slab_approved(score)
                                     /\ ~over_salary_cap(customer, ls, new_emi),
         credit_score            |-> score,
         corrected_interest_rate |-> rate,
         monthly_installment     |-> new_emi]

(***************************************************************************)
(* Bounds and the input sets of the requests.                              *)
(***************************************************************************)
MaxWorkers == 2          \* concurrent create-loan requests
MaxYears   == 1          \* new years the clock passes
MaxHist    == 4          \* loans in a loan history handed to the scorer

None == 0                \* Python's None where an id is expected

Day0 == 2000 * 365

Phones   == {"p1", "p2"}
Ages     == {17, 30}
Incomes  == {120000, 200000}
Amounts  == {99999, 100000}
Rates    == {600, 1800}
Tenures  == {1, 2}

CustomerIds == 1..Cardinality(Phones)

RegisterRequests ==
    [age : Ages, monthly_income : Incomes, phone_number : Phones]

LoanRequests ==
    [customer_id : CustomerIds, loan_amount : Amounts,
     interest_rate : Rates, tenure : Tenures]

Workers == 1..MaxWorkers

Idle == [pc |-> "idle"]

\* resp holds the last exchange: the handler (op), the request data, and the
\* status and body of the Response it returned.
NoResponse == [op |-> "none", status |-> 0, body |-> [errors |-> FALSE]]

(***************************************************************************)
(* core/serializers.py: the request serializers' is_valid()                *)
(***************************************************************************)
validate_phone_number(value) ==
    ~\E i \in 1..Len(customers) : customers[i].phone_number = value

RegisterRequestValid(data) ==
    /\ data.age >= 18 /\ data.age <= 120
    /\ data.monthly_income >= 1
    /\ validate_phone_number(data.phone_number)

LoanRequestValid(data) ==
    /\ data.customer_id >= 1
    /\ data.loan_amount >= 100000
    /\ data.interest_rate >= 0 /\ data.interest_rate <= 10000
    /\ data.tenure >= 1 /\ data.tenure <= 360

(***************************************************************************)
(* core/views.py                                                           *)
(***************************************************************************)
\* customer.loans.all(): the Loan rows whose foreign key is the customer
customer_loans(id) ==
    SelectSeq(loans, LAMBDA l : l.customer = id)

CustomerExists(id) ==
    id \in 1..Len(customers)

\* (limit / lakh).quantize(Decimal('1')) * lakh, with lakh = 100000.00
calculate_approved_limit(monthly_income) ==
    MulDivRound(monthly_income * 36, 1, 10000000) * 10000000

Register(data) ==
    /\ IF ~RegisterRequestValid(data)
       THEN /\ resp' = [op |-> "register", request |-> data, status |-> 400,
                        body |-> [errors |-> TRUE]]
            /\ UNCHANGED customers
       ELSE LET limit == calculate_approved_limit(data.monthly_income)
                customer == [phone_number   |-> data.phone_number,
                             age            |-> data.age,
                             monthly_salary |-> data.monthly_income,
                             approved_limit |-> limit]
            IN  /\ customers' = Append(customers, customer)
                /\ resp' = [op |-> "register", request |-> data, status |-> 201,
                            body |-> [customer_id    |-> Len(customers) + 1,
                                      age            |-> data.age,
                                      monthly_income |-> data.monthly_income,
                                      approved_limit |-> limit,
                                      phone_number   |-> data.phone_number]]
    /\ UNCHANGED <<loans, today, inflight>>

\* mutant: the eligibility check stores the loan it approves
CheckEligibility_persists(data) ==
    /\ resp' = [op |-> "check-eligibility", request |-> data, status |-> 200,
                body |-> [errors |-> FALSE]]
    /\ IF LoanRequestValid(data) /\ data.customer_id \in 1..Len(customers)
       THEN loans' = Append(loans,
                        [customer            |-> data.customer_id,
                         loan_amount         |-> data.loan_amount,
                         interest_rate       |-> data.interest_rate,
                         tenure              |-> data.tenure,
                         monthly_installment |-> 0,
                         emis_paid_on_time   |-> 0,
                         start_date          |-> today,
                         end_date            |-> today])
       ELSE UNCHANGED loans
    /\ UNCHANGED <<customers, today, inflight>>

CheckEligibility(data) ==
    /\ IF ~LoanRequestValid(data)
       THEN resp' = [op |-> "check-eligibility", request |-> data, status |-> 400,
                     body |-> [errors |-> TRUE]]
       ELSE IF ~CustomerExists(data.customer_id)
       THEN resp' = [op |-> "check-eligibility", request |-> data, status |-> 404,
                     body |-> [error |-> "Customer not found"]]
       ELSE LET result == check_loan_eligibility(
                              customers[data.customer_id],
                              customer_loans(data.customer_id),
                              data.loan_amount, data.interest_rate,
                              data.tenure, today)
            IN  resp' = [op |-> "check-eligibility", request |-> data, status |-> 200,
                         body |-> [customer_id   |-> data.customer_id,
                                   approval      |-> result.approval,
                                   interest_rate |-> data.interest_rate,
                                   corrected_interest_rate |->
                                       result.corrected_interest_rate,
                                   tenure        |-> data.tenure,
                                   monthly_installment |->
                                       result.monthly_installment]]
    /\ UNCHANGED <<customers, loans, today, inflight>>

\* mutant: the loan is stored at the requested rate, not the corrected one
NewLoan_requested_rate(data, result, now) ==
    [customer            |-> data.customer_id,
     loan_amount         |-> data.loan_amount,
     interest_rate       |-> data.interest_rate,
     tenure              |-> data.tenure,
     monthly_installment |-> result.monthly_installment,
     emis_paid_on_time   |-> 0,
     start_date          |-> now,
     end_date            |-> now + 30 * data.tenure]

\* Loan.objects.create(...) of CreateLoanView.post
NewLoan(data, result, now) ==
    [customer            |-> data.customer_id,
     loan_amount         |-> data.loan_amount,
     interest_rate       |-> result.corrected_interest_rate,
     tenure              |-> data.tenure,
     monthly_installment |-> result.monthly_installment,
     emis_paid_on_time   |-> 0,
     start_date          |-> now,
     end_date            |-> now + 30 * data.tenure]

RejectedResponse(data, result) ==
    [op |-> "create-loan", request |-> data, status |-> 200,
     body |-> [loan_id       |-> None,
               customer_id   |-> data.customer_id,
               loan_approved |-> FALSE,
               message       |-> "Loan not approved based on credit criteria",
               monthly_installment |-> result.monthly_installment]]

CreatedResponse(data, result, id) ==
    [op |-> "create-loan", request |-> data, status |-> 201,
     body |-> [loan_id       |-> id,
               customer_id   |-> data.customer_id,
               loan_approved |-> TRUE,
               message       |-> "Loan approved successfully",
               monthly_installment |-> result.monthly_installment]]

CreateLoan(data) ==
    /\ IF ~LoanRequestValid(data)
       THEN /\ resp' = [op |-> "create-loan", request |-> data, status |-> 400,
                        body |-> [errors |-> TRUE]]
            /\ UNCHANGED loans
       ELSE IF ~CustomerExists(data.customer_id)
       THEN /\ resp' = [op |-> "create-loan", request |-> data, status |-> 404,
                        body |-> [error |-> "Customer not found"]]
            /\ UNCHANGED loans
       ELSE LET result == check_loan_eligibility(
                              customers[data.customer_id],
                              customer_loans(data.customer_id),
                              data.loan_amount, data.interest_rate,
                              data.tenure, today)
            IN  IF ~result.approval
                THEN /\ resp' = RejectedResponse(data, result)
                     /\ UNCHANGED loans
                ELSE /\ loans' = Append(loans, NewLoan(data, result, today))
                     /\ resp' = CreatedResponse(data, result, Len(loans) + 1)
    /\ UNCHANGED <<customers, today, inflight>>

\* the system clock passes a new year (date.today() is read by the scorer
\* and by CreateLoanView.post)
NewYear ==
    /\ YearOf(today) < YearOf(Day0) + MaxYears
    /\ today' = today + 365
    /\ UNCHANGED <<customers, loans, resp, inflight>>

Init ==
    /\ customers = <<>>
    /\ loans = <<>>
    /\ today = Day0
    /\ resp = NoResponse
    /\ inflight = [w \in Workers |-> Idle]

Next ==
    \/ \E data \in RegisterRequests : Register(data)
    \/ \E data \in LoanRequests : CheckEligibility(data)
    \/ \E data \in LoanRequests : CreateLoan(data)
    \/ NewYear

Spec == Init /\ [][Next]_vars

(***************************************************************************)
(* The scorer and the decider as functions of their inputs.  A customer    *)
(* row and a loan history are drawn from bounded sets (rows such as the    *)
(* bulk ingestion of core/tasks.py stores: any installment, any number of  *)
(* EMIs paid, any limit), and the actions call the two functions on them.  *)
(* resp then holds the call: its arguments, the date of the call and the   *)
(* value returned.  A history                                              *)
(* lists its loans in the order of LoanPool; the scorer and the decider    *)
(* only sum and count over the rows.  calc_emi is called the same way, on  *)
(* arguments of its own.                                                   *)
(***************************************************************************)
CustomerPool ==
    { [phone_number |-> "p1", age |-> 30,
       monthly_salary |-> 5000000, approved_limit |-> 180000000],
      [phone_number |-> "p1", age |-> 30,
       monthly_salary |-> 5000000, approved_limit |-> 15000000],
      [phone_number |-> "p1", age |-> 30,
       monthly_salary |-> 5000000, approved_limit |-> -100],
      [phone_number |-> "p1", age |-> 30,
       monthly_salary |-> 120000,  approved_limit |-> 0] }

LoanPool ==
    << \* repaid in full last year
       [customer |-> 1, loan_amount |-> 100000, interest_rate |-> 1200,
        tenure |-> 2, monthly_installment |-> 50751, emis_paid_on_time |-> 2,
        start_date |-> Day0 - 300, end_date |-> Day0 - 240],
       \* taken this year, nothing paid yet
       [customer |-> 1, loan_amount |-> 100000, interest_rate |-> 1200,
        tenure |-> 2, monthly_installment |-> 50751, emis_paid_on_time |-> 0,
        start_date |-> Day0, end_date |-> Day0 + 60],
       \* a large loan repaid in full
       [customer |-> 1, loan_amount |-> 60000000, interest_rate |-> 0,
        tenure |-> 10, monthly_installment |-> 6000000, emis_paid_on_time |-> 10,
        start_date |-> Day0 - 700, end_date |-> Day0 - 400],
       \* eight of ten installments paid, two left
       [customer |-> 1, loan_amount |-> 1000000, interest_rate |-> 1200,
        tenure |-> 10, monthly_installment |-> 105582, emis_paid_on_time |-> 8,
        start_date |-> Day0 - 300, end_date |-> Day0],
       \* a heavy running loan: installment 20000.00, 200000.00 outstanding
       [customer |-> 1, loan_amount |-> 20000000, interest_rate |-> 0,
        tenure |-> 10, monthly_installment |-> 2000000, emis_paid_on_time |-> 0,
        start_date |-> Day0 - 20, end_date |-> Day0 + 280] >>

Histories ==
    LET picks == UNION { { f \in [1..n -> 1..Len(LoanPool)] :
                             \A i \in 1..(n - 1) : f[i] <= f[i + 1] } :
                         n \in 0..MaxHist }
    IN  { [i \in 1..Len(f) |-> LoanPool[f[i]]] : f \in picks }

DecideRates == {0, 600, 1500, 1800}

DecideArgs ==
    [requested_amount : {100000}, requested_rate : DecideRates,
     tenure : Tenures]

CallScore ==
    /\ resp' = [op |-> "calculate_credit_score", at |-> today,
                body |-> [credit_score |->
                             calculate_credit_score(customers[1],
                                                    customer_loans(1), today)]]
    /\ UNCHANGED <<customers, loans, today, inflight>>

CallDecide(args) ==
    /\ resp' = [op |-> "check_loan_eligibility", at |-> today,
                request |-> args,
                body |-> check_loan_eligibility(customers[1], customer_loans(1),
                                                args.requested_amount,
                                                args.requested_rate,
                                                args.tenure, today)]
    /\ UNCHANGED <<customers, loans, today, inflight>>

\* principals in cents (0, and two amounts whose half is an exact half cent)
\* and tenures on which calc_emi is called at rate 0
EmiArgs ==
    [principal : {0, 100005, 100015}, annual_rate : {0}, tenure_months : Tenures]

CallEmi(args) ==
    /\ resp' = [op |-> "calc_emi", at |-> today, request |-> args,
                body |-> [monthly_installment |->
                             calc_emi(args.principal, args.annual_rate,
                                      args.tenure_months)]]
    /\ UNCHANGED <<customers, loans, today, inflight>>

InitDecide ==
    /\ customers \in {<<c>> : c \in CustomerPool}
    /\ loans \in Histories
    /\ today = Day0
    /\ resp = NoResponse
    /\ inflight = [w \in Workers |-> Idle]

NextDecide ==
    \/ CallScore
    \/ \E args \in DecideArgs : CallDecide(args)
    \/ \E args \in EmiArgs : CallEmi(args)
    \/ NewYear

SpecDecide == InitDecide /\ [][NextDecide]_vars

(***************************************************************************)
(* Concurrent create-loan requests.  CreateLoanView.post runs outside any  *)
(* transaction and takes no row lock: the rows are read inside             *)
(* check_loan_eligibility, and Loan.objects.create is a later statement.   *)
(* A worker therefore handles a request in two steps, and other workers'   *)
(* steps may fall between them.                                            *)
(***************************************************************************)
BeginCreateLoan(w, data) ==
    /\ inflight[w] = Idle
    /\ IF ~LoanRequestValid(data)
       THEN /\ resp' = [op |-> "create-loan", request |-> data, status |-> 400,
                        body |-> [errors |-> TRUE]]
            /\ UNCHANGED inflight
       ELSE IF ~CustomerExists(data.customer_id)
       THEN /\ resp' = [op |-> "create-loan", request |-> data, status |-> 404,
                        body |-> [error |-> "Customer not found"]]
            /\ UNCHANGED inflight
       ELSE LET result == check_loan_eligibility(
                              customers[data.customer_id],
                              customer_loans(data.customer_id),
                              data.loan_amount, data.interest_rate,
                              data.tenure, today)
            IN  IF ~result.approval
                THEN /\ resp' = RejectedResponse(data, result)
                     /\ UNCHANGED inflight
                ELSE /\ inflight' = [inflight EXCEPT ![w] =
                                        [pc |-> "insert", data |-> data,
                                         result |-> result]]
                     /\ UNCHANGED resp
    /\ UNCHANGED <<customers, loans, today>>

FinishCreateLoan(w) ==
    /\ inflight[w].pc = "insert"
    /\ loans' = Append(loans, NewLoan(inflight[w].data, inflight[w].result, today))
    /\ resp' = CreatedResponse(inflight[w].data, inflight[w].result, Len(loans) + 1)
    /\ inflight' = [inflight EXCEPT ![w] = Idle]
    /\ UNCHANGED <<customers, today>>

NextRace ==
    \/ \E data \in RegisterRequests : Register(data)
    \/ \E w \in Workers, data \in LoanRequests : BeginCreateLoan(w, data)
    \/ \E w \in Workers : FinishCreateLoan(w)

SpecRace == Init /\ [][NextRace]_vars

(***************************************************************************)
(* Concurrent register requests.  RegisterView.post runs outside any       *)
(* transaction: the serializer looks the phone number up inside            *)
(* is_valid(), and Customer.objects.create is a later statement, so other  *)
(* workers' steps may fall between the two.  Customer.phone_number is      *)
(* declared unique=True, so the INSERT of a stored phone number raises     *)
(* IntegrityError, which the view's except clause turns into a 500.        *)
(***************************************************************************)
BeginRegister(w, data) ==
    /\ inflight[w] = Idle
    /\ IF ~RegisterRequestValid(data)
       THEN /\ resp' = [op |-> "register", request |-> data, status |-> 400,
                        body |-> [errors |-> TRUE]]
            /\ UNCHANGED inflight
       ELSE /\ inflight' = [inflight EXCEPT ![w] =
                               [pc |-> "insert", data |-> data,
                                limit |-> calculate_approved_limit(
                                              data.monthly_income)]]
            /\ UNCHANGED resp
    /\ UNCHANGED <<customers, loans, today>>

FinishRegister(w) ==
    /\ inflight[w].pc = "insert"
    /\ LET data == inflight[w].data
           customer == [phone_number   |-> data.phone_number,
                        age            |-> data.age,
                        monthly_salary |-> data.monthly_income,
                        approved_limit |-> inflight[w].limit]
       IN  IF \E i \in 1..Len(customers) :
                  customers[i].phone_number = data.phone_number
           THEN /\ resp' = [op |-> "register", request |-> data, status |-> 500,
                            body |-> [error |-> "Failed to create customer"]]
                /\ UNCHANGED customers
           ELSE /\ customers' = Append(customers, customer)
                /\ resp' = [op |-> "register", request |-> data, status |-> 201,
                            body |-> [customer_id    |-> Len(customers) + 1,
                                      age            |-> data.age,
                                      monthly_income |-> data.monthly_income,
                                      approved_limit |-> inflight[w].limit,
                                      phone_number   |-> data.phone_number]]
    /\ inflight' = [inflight EXCEPT ![w] = Idle]
    /\ UNCHANGED <<loans, today>>

NextRegisterRace ==
    \/ \E w \in Workers, data \in RegisterRequests : BeginRegister(w, data)
    \/ \E w \in Workers : FinishRegister(w)

SpecRegisterRace == Init /\ [][NextRegisterRace]_vars

(***************************************************************************)
(* Properties of the scorer and the decider (SpecDecide).  The helpers     *)
(* below state the rules in the specification's words, over the rows of    *)
(* the history and the date of the call.                                   *)
(***************************************************************************)
RECURSIVE SumOver(_, _)
SumOver(S, f) ==
    IF S = {} THEN 0
    ELSE LET x == CHOOSE y \in S : TRUE
         IN  f[x] + SumOver(S \ {x}, f)

Rows == 1..Len(loans)

ActiveRows == {i \in Rows : loans[i].tenure - loans[i].emis_paid_on_time > 0}

\* sum of remaining_principal over the active loans
Exposure == SumOver(ActiveRows, [i \in Rows |-> remaining_principal(loans[i])])

\* sum of monthly_installment over the active loans
ActiveInstallments == SumOver(ActiveRows, [i \in Rows |-> loans[i].monthly_installment])

IsDecision == resp.op = "check_loan_eligibility"

IsScore == resp.op = "calculate_credit_score"

Scored == IsDecision \/ IsScore

\* C1: the corrected rate follows the risk slab of the computed score: the
\* requested rate above 50, max(requested, 12%) in (30, 50], max(requested,
\* 16%) in (10, 30], and at or below 10 the loan is not approved and the
\* requested rate is reported unchanged; it is never below the requested rate.
C1_RiskSlabRate ==
    IsDecision =>
        LET score     == resp.body.credit_score
            requested == resp.request.requested_rate
            corrected == resp.body.corrected_interest_rate
        IN  /\ score = calculate_credit_score(customers[1], loans, resp.at)
            /\ score > 50 => corrected = requested
            /\ (score > 30 /\ score <= 50) =>
                   corrected = (IF requested >= 1200 THEN requested ELSE 1200)
            /\ (score > 10 /\ score <= 30) =>
                   corrected = (IF requested >= 1600 THEN requested ELSE 1600)
            /\ score <= 10 => (~resp.body.approval /\ corrected = requested)
            /\ corrected >= requested

\* a decision in the slab (10, 30] that raised a 6% request to the 16% floor
C1_Witness ==
    /\ IsDecision
    /\ resp.body.credit_score > 10 /\ resp.body.credit_score <= 30
    /\ resp.request.requested_rate = 600
    /\ resp.body.corrected_interest_rate = 1600

\* C2: approval is true exactly when the score is above 10 and the active
\* loans' installments plus the new installment do not exceed half the salary.
C2_ApprovalIff ==
    IsDecision =>
        (resp.body.approval <=>
            /\ resp.body.credit_score > 10
            /\ 2 * (ActiveInstallments + resp.body.monthly_installment)
                   <= customers[1].monthly_salary)

\* a decision whose score qualifies and that the salary cap alone rejects
C2_Witness ==
    /\ IsDecision
    /\ resp.body.credit_score > 50
    /\ ActiveInstallments > 0
    /\ ~resp.body.approval

\* C6: the score is 0 whenever the active loans' remaining principal exceeds
\* the approved limit, whatever the rest of the history, loans or no loans.
C6_OverLimitScoresZero ==
    (Scored /\ Exposure > customers[1].approved_limit) =>
        resp.body.credit_score = 0

\* a score of 0 for a history that the additive rules alone would rate above 50
C6_Witness ==
    /\ IsScore
    /\ Exposure > customers[1].approved_limit
    /\ resp.body.credit_score = 0
    /\ 50 + perf_points(loans) + completed_points(loans)
          + recent_points(loans, resp.at) + volume_points(loans) > 50

\* C7: a customer without loans, with a positive salary and a limit of at
\* least 0, scores exactly 50.
C7_NoLoansScoresFifty ==
    (Scored /\ Len(loans) = 0 /\ customers[1].monthly_salary > 0
            /\ customers[1].approved_limit >= 0) =>
        resp.body.credit_score = 50

\* the scorer called on a customer without loans whose limit is 0
C7_Witness ==
    /\ IsScore
    /\ Len(loans) = 0
    /\ customers[1].approved_limit = 0
    /\ resp.body.credit_score = 50

PaidRatioPoints ==
    LET paid == SumOver(Rows, [i \in Rows |-> loans[i].emis_paid_on_time])
        due  == SumOver(Rows, [i \in Rows |-> loans[i].tenure])
    IN  IF 10 * paid > 9 * due THEN 10
        ELSE IF 10 * paid > 7 * due THEN 5
        ELSE IF 2 * paid < due THEN -10
        ELSE 0

ClosedPoints ==
    LET n == Cardinality(Rows \ ActiveRows)
    IN  IF n > 3 THEN 10 ELSE IF n >= 1 THEN 5 ELSE 0

RecentPoints(at) ==
    LET n == Cardinality({i \in Rows : loans[i].start_date \div 365 = at \div 365})
    IN  IF n > 3 THEN -10 ELSE IF n >= 1 THEN 5 ELSE 0

VolumePoints ==
    LET vol == SumOver(Rows, [i \in Rows |-> loans[i].loan_amount])
    IN  IF vol > 100000000 THEN 10 ELSE IF vol > 50000000 THEN 5 ELSE 0

Clamp(x) ==
    IF x < 0 THEN 0 ELSE IF x > 100 THEN 100 ELSE x

\* C8: with at least one loan and the active debt within the limit, the score
\* is 50 + P + C + R + V clamped to [0, 100], the four adjustments taken over
\* all loans of the customer.
C8_AdditiveScore ==
    (Scored /\ Len(loans) >= 1 /\ Exposure <= customers[1].approved_limit) =>
        resp.body.credit_score =
            Clamp(50 + PaidRatioPoints + ClosedPoints + RecentPoints(resp.at)
                     + VolumePoints)

\* a score to which each of the four rules contributed
C8_Witness ==
    /\ IsScore
    /\ Len(loans) >= 1 /\ Exposure <= customers[1].approved_limit
    /\ PaidRatioPoints # 0 /\ ClosedPoints # 0
    /\ RecentPoints(resp.at) # 0 /\ VolumePoints # 0
    /\ resp.body.credit_score = 50 + PaidRatioPoints + ClosedPoints
                                   + RecentPoints(resp.at) + VolumePoints

\* C9: two calls of check_loan_eligibility with the same customer, the same
\* loans and the same (amount, rate, tenure) return the same result, whenever
\* they are made.
C9_SameInputsSameResult ==
    [][(/\ IsDecision
        /\ resp'.op = "check_loan_eligibility"
        /\ resp'.request = resp.request
        /\ customers' = customers
        /\ loans' = loans) => resp'.body = resp.body]_vars

(***************************************************************************)
(* Properties of the request handlers.                                     *)
(***************************************************************************)
\* the decision on a create-loan or check-eligibility request in this state
Decision(data) ==
    check_loan_eligibility(customers[data.customer_id],
                           SelectSeq(loans, LAMBDA l : l.customer = data.customer_id),
                           data.loan_amount, data.interest_rate, data.tenure,
                           today)

\* C3: a create-loan request for an existing customer adds exactly one Loan
\* when the decision is approved (corrected rate, the decision's installment,
\* no EMI paid, start today, end 30*tenure days later) and returns its id;
\* when the decision is not approved it returns a null loan id and changes
\* neither the loans nor the customers.
C3_CreateLoanEffect ==
    [][(/\ resp'.op = "create-loan"
        /\ resp'.status \in {200, 201}
        /\ today' = today) =>
           LET data == resp'.request
               d    == Decision(data)
           IN  /\ customers' = customers
               /\ d.approval =>
                     /\ resp'.status = 201
                     /\ Len(loans') = Len(loans) + 1
                     /\ \A i \in 1..Len(loans) : loans'[i] = loans[i]
                     /\ resp'.body.loan_id = Len(loans')
                     /\ loans'[Len(loans')] =
                            [customer            |-> data.customer_id,
                             loan_amount         |-> data.loan_amount,
                             interest_rate       |-> d.corrected_interest_rate,
                             tenure              |-> data.tenure,
                             monthly_installment |-> d.monthly_installment,
                             emis_paid_on_time   |-> 0,
                             start_date          |-> today,
                             end_date            |-> today + 30 * data.tenure]
               /\ ~d.approval =>
                     /\ resp'.status = 200
                     /\ resp'.body.loan_id = None
                     /\ loans' = loans]_vars

\* a loan just created at a rate the decision raised above the requested one
C3_Witness ==
    /\ resp.op = "create-loan" /\ resp.status = 201
    /\ resp.body.loan_id = Len(loans)
    /\ loans[Len(loans)].interest_rate > resp.request.interest_rate
    /\ loans[Len(loans)].start_date = today

\* C4: however create-loan requests interleave, the installments of a
\* customer's active loans never add up to more than half the salary.
C4_SalaryCapKept ==
    \A c \in 1..Len(customers) :
        2 * SeqSum([i \in 1..Len(loans) |->
                       IF loans[i].customer = c /\ is_active(loans[i])
                       THEN loans[i].monthly_installment ELSE 0])
            <= customers[c].monthly_salary

\* C5: the remaining principal of a customer's active loans never exceeds the
\* customer's approved limit.
C5_ExposureWithinLimit ==
    \A c \in 1..Len(customers) :
        SeqSum([i \in 1..Len(loans) |->
                   IF loans[i].customer = c /\ is_active(loans[i])
                   THEN remaining_principal(loans[i]) ELSE 0])
            <= customers[c].approved_limit

\* C10: a check-eligibility request creates, modifies and deletes no Customer
\* and no Loan, whatever its outcome.
C10_CheckEligibilityReadOnly ==
    [][resp'.op = "check-eligibility" =>
           (customers' = customers /\ loans' = loans)]_vars

\* an approving eligibility check made while both tables hold rows
C10_Witness ==
    /\ resp.op = "check-eligibility" /\ resp.status = 200
    /\ resp.body.approval
    /\ Len(customers) >= 2 /\ Len(loans) >= 1

\* the fields of the decider's result
DecisionFields ==
    {"approval", "credit_score", "corrected_interest_rate", "monthly_installment"}

\* C11: every check-eligibility response for an existing customer and a valid
\* request, approved or rejected, is a successful response that carries the
\* approval flag, the credit score, the corrected interest rate and the
\* monthly installment of the decision.
C11_ResponseCarriesDecision ==
    [][(/\ resp'.op = "check-eligibility"
        /\ resp'.status = 200
        /\ today' = today) =>
           LET d == Decision(resp'.request)
           IN  /\ DecisionFields \subseteq DOMAIN resp'.body
               /\ \A f \in DecisionFields : resp'.body[f] = d[f]]_vars

\* C12: every stored customer's approved_limit is 36 * monthly_income rounded
\* down to a multiple of 100,000: a multiple of 100,000, at most
\* 36 * monthly_income and less than 100,000 below it.
C12_LimitRoundedDown ==
    \A c \in 1..Len(customers) :
        LET limit == customers[c].approved_limit
            full  == 36 * customers[c].monthly_salary
        IN  /\ limit % 10000000 = 0
            /\ limit <= full
            /\ full - limit < 10000000

\* principal / tenure in cents, an exact half cent rounded up
HalfUpQuotient(principal, tenure) ==
    (2 * principal + tenure) \div (2 * tenure)

\* principal / tenure in cents, an exact half cent rounded to the even cent
HalfEvenQuotient(principal, tenure) ==
    LET q == principal \div tenure
        r == principal % tenure
    IN  IF 2 * r > tenure THEN q + 1
        ELSE IF 2 * r < tenure THEN q
        ELSE IF q % 2 = 0 THEN q ELSE q + 1

IsZeroRateEmi ==
    /\ resp.op = "calc_emi"
    /\ resp.request.annual_rate = 0
    /\ resp.request.tenure_months > 0
    /\ resp.request.principal >= 0

\* C13 as stated: for tenure > 0 and principal >= 0, calc_emi at rate 0 is
\* non-negative and equals principal / tenure rounded to 2 decimals half up.
C13_ZeroRateHalfUp ==
    IsZeroRateEmi =>
        /\ resp.body.monthly_installment >= 0
        /\ resp.body.monthly_installment =
               HalfUpQuotient(resp.request.principal, resp.request.tenure_months)

\* C13 amended: for tenure > 0 and principal >= 0, calc_emi at rate 0 is
\* non-negative and equals principal / tenure rounded to 2 decimals half even
\* (an exact half cent rounds to the even cent).
C13_ZeroRateHalfEven ==
    IsZeroRateEmi =>
        /\ resp.body.monthly_installment >= 0
        /\ resp.body.monthly_installment =
               HalfEvenQuotient(resp.request.principal, resp.request.tenure_months)

\* a zero-rate installment whose exact value ends in half a cent and that was
\* rounded down to the even cent
C13_Witness ==
    /\ IsZeroRateEmi
    /\ 2 * (resp.request.principal % resp.request.tenure_months)
           = resp.request.tenure_months
    /\ resp.body.monthly_installment
           = resp.request.principal \div resp.request.tenure_months

PhoneStored(phone) ==
    \E i \in 1..Len(customers) : customers[i].phone_number = phone

\* C14: however register requests interleave, no two stored customers share
\* a phone number, and a registration that completes while its phone number
\* is already stored is answered 400 and creates no customer; it is never
\* answered 500.
C14_DuplicatePhoneRejected ==
    /\ [](\A i, j \in 1..Len(customers) :
             i # j => customers[i].phone_number # customers[j].phone_number)
    /\ [][(/\ resp'.op = "register"
           /\ resp' # resp
           /\ PhoneStored(resp'.request.phone_number)) =>
              (resp'.status = 400 /\ customers' = customers)]_vars

\* C15: for every customer and every loan history with tenure > 0 on each
\* loan, the score is 0 or a multiple of 5 from 30 to 85; a score at or below
\* 10 is the 0 returned by the approved-limit guard (the active debt exceeds
\* the limit), and the 16% floor is applied only at a score of exactly 30.
C15_ScoreRange ==
    (Scored /\ \A i \in Rows : loans[i].tenure > 0) =>
        LET score == resp.body.credit_score
        IN  /\ score = 0 \/ (score >= 30 /\ score <= 85 /\ score % 5 = 0)
            /\ score <= 10 =>
                   (score = 0 /\ Exposure > customers[1].approved_limit)
            /\ (score > 10 /\ score <= 30) => score = 30
            /\ (/\ IsDecision
                /\ resp.body.corrected_interest_rate = 1600
                /\ resp.request.requested_rate < 1600) => score = 30

\* the scorer returning the lowest score the additive rules can produce: four
\* loans taken this year, under half of the installments paid, none closed
C15_Witness ==
    /\ IsScore
    /\ Len(loans) >= 1 /\ Exposure <= customers[1].approved_limit
    /\ PaidRatioPoints = -10 /\ RecentPoints(resp.at) = -10
    /\ ClosedPoints = 0 /\ VolumePoints = 0
    /\ resp.body.credit_score = 30

====
